---------------------------- MODULE Spec2Model ----------------------------
(***************************************************************************)
(* A model of zipfs (src/filesys.go): a zip archive served as a read-only  *)
(* http.FileSystem.  Strings are sequences of one-character strings, so    *)
(* that path.Clean, path.Dir, path.Base and the Trim functions are         *)
(* computed character by character as the Go code computes them.           *)
(***************************************************************************)
EXTENDS Integers, Sequences, FiniteSets, TLC

(***************************************************************************)
(* Bounds of the model.                                                    *)
(***************************************************************************)
\* the longest archive entry list New is run on
MaxEntries == 2
\* the largest count passed to Readdir
MaxCount == 2
\* the largest buffer length passed to Read
MaxLen == 1
\* the largest offset a Seek relative to the current offset is started from
MaxPos == 2
\* the number of temporary files one handle's failed materializations leave behind them
MaxFailedTemps == 1

(***************************************************************************)
(* Strings.                                                                *)
(***************************************************************************)
Slash == <<"/">>
Dot == <<".">>
DotDot == <<".", ".">>

\* the byte value of a character, for Go's string comparison
Code(c) ==
    CASE c = "." -> 46
      [] c = "/" -> 47
      [] c = "a" -> 97
      [] c = "b" -> 98
      [] c = "c" -> 99
      [] c = "x" -> 120

Min(a, b) == IF a < b THEN a ELSE b

\* Go's s < t on strings: bytewise lexicographic
RECURSIVE StrLess(_, _)
StrLess(s, t) ==
    IF t = <<>> THEN FALSE
    ELSE IF s = <<>> THEN TRUE
    ELSE IF Code(Head(s)) # Code(Head(t)) THEN Code(Head(s)) < Code(Head(t))
    ELSE StrLess(Tail(s), Tail(t))

\* strings.TrimRight(s, "/")
RECURSIVE TrimRight(_)
TrimRight(s) ==
    IF s # <<>> /\ s[Len(s)] = "/" THEN TrimRight(SubSeq(s, 1, Len(s) - 1)) ELSE s

\* strings.TrimLeft(s, "/")
RECURSIVE TrimLeft(_)
TrimLeft(s) ==
    IF s # <<>> /\ Head(s) = "/" THEN TrimLeft(Tail(s)) ELSE s

\* strings.HasSuffix(s, "/")
HasSuffix(s) == s # <<>> /\ s[Len(s)] = "/"

\* strings.LastIndex(s, "/"), 1-based; 0 when there is none
RECURSIVE LastSlash(_)
LastSlash(s) ==
    IF s = <<>> THEN 0
    ELSE IF s[Len(s)] = "/" THEN Len(s)
    ELSE LastSlash(SubSeq(s, 1, Len(s) - 1))

\* the elements of a path between its slashes, empty ones included
RECURSIVE Split(_)
Split(s) ==
    LET i == LastSlash(s)
    IN  IF i = 0 THEN <<s>>
        ELSE Append(Split(SubSeq(s, 1, i - 1)), SubSeq(s, i + 1, Len(s)))

RECURSIVE Join(_)
Join(elems) ==
    IF elems = <<>> THEN <<>>
    ELSE IF Len(elems) = 1 THEN elems[1]
    ELSE elems[1] \o Slash \o Join(Tail(elems))

\* path.Clean's pass over the elements: out is the cleaned prefix
RECURSIVE CleanElems(_, _, _)
CleanElems(elems, out, rooted) ==
    IF elems = <<>> THEN out
    ELSE LET e == Head(elems)
             rest == Tail(elems)
         IN  IF e = <<>> \/ e = Dot THEN CleanElems(rest, out, rooted)
             ELSE IF e = DotDot
                  THEN IF out # <<>> /\ out[Len(out)] # DotDot
                       THEN CleanElems(rest, SubSeq(out, 1, Len(out) - 1), rooted)
                       ELSE IF rooted THEN CleanElems(rest, out, rooted)
                       ELSE CleanElems(rest, Append(out, e), rooted)
                  ELSE CleanElems(rest, Append(out, e), rooted)

\* path.Clean(p)
Clean(p) ==
    IF p = <<>> THEN Dot
    ELSE LET rooted == Head(p) = "/"
             body == Join(CleanElems(Split(p), <<>>, rooted))
             r == IF rooted THEN Slash \o body ELSE body
         IN  IF r = <<>> THEN Dot ELSE r

\* path.Dir(p)
Dir(p) == Clean(SubSeq(p, 1, LastSlash(p)))

\* path.Base(p)
Base(p) ==
    IF p = <<>> THEN Dot
    ELSE LET t == TrimRight(p)
         IN  IF t = <<>> THEN Slash ELSE SubSeq(t, LastSlash(t) + 1, Len(t))

(***************************************************************************)
(* The archive: zip.Reader.File, a list of entries.  An entry is a record  *)
(* of its name and its uncompressed content; zip.FileHeader.Mode reports a *)
(* directory for a name that ends in a slash.                              *)
(***************************************************************************)
\* the names an archive entry may carry, with the content stored under each
EntryTable ==
    { [name |-> <<"a">>, content |-> <<5, 6>>],
      [name |-> <<"c", "/">>, content |-> <<>>],
      [name |-> <<"c", "/", "b", "/", "a">>, content |-> <<7>>] }

RECURSIVE SeqsOver(_, _)
\* the sequences of at most n distinct elements of S
SeqsOver(S, n) ==
    IF n = 0 THEN { <<>> }
    ELSE LET shorter == SeqsOver(S, n - 1)
         IN  shorter \cup
             { Append(q, e) : q \in { r \in shorter : Len(r) = n - 1 },
                              e \in S } 

Range(q) == { q[i] : i \in DOMAIN q }

Archives ==
    { q \in SeqsOver(EntryTable, MaxEntries) : Cardinality(Range(q)) = Len(q) }

\* zf.Mode().IsDir()
ZipIsDir(zf) == HasSuffix(zf.name)

(***************************************************************************)
(* The index.  A *fileInfo is the position of its record in the sequence   *)
(* nodes, 0 is the nil pointer; zipFile is the position of the *zip.File   *)
(* in the archive, 0 for nil.  A fileInfoMap is a function from keys to    *)
(* *fileInfo; a key outside its domain reads as nil, as in Go, and the nil *)
(* map is the function with the empty domain.                              *)
(***************************************************************************)
NilMap == <<>>

Lookup(fm, key) == IF key \in DOMAIN fm THEN fm[key] ELSE 0

\* fm[k] = fi for every k of keys
Store(fm, keys, fi) ==
    [k \in DOMAIN fm \cup keys |-> IF k \in keys THEN fi ELSE fm[k]]

\* fileInfoMap.FindOrCreate on the index ix = [nodes, fm]: the index after
\* the call and the *fileInfo returned
FindOrCreate(ix, name) ==
    LET strippedName == TrimRight(name)
        fi == Lookup(ix.fm, name)
        new == Len(ix.nodes) + 1
    IN  IF fi = 0
        THEN [ix |-> [nodes |-> Append(ix.nodes,
                                       [name |-> name, zipFile |-> 0,
                                        fileInfos |-> <<>>]),
                      fm |-> Store(ix.fm, {name, strippedName}, new)],
              fi |-> new]
        ELSE [ix |-> ix, fi |-> fi]

\* the directory name fileInfoMap.FindOrCreateParent looks up
ParentName(name) ==
    LET dirName == Dir(TrimRight(name))
    IN  IF dirName = Dot THEN Slash
        ELSE IF ~HasSuffix(dirName) THEN dirName \o Slash
        ELSE dirName

\* fileInfoMap.FindOrCreateParent
FindOrCreateParent(ix, name) == FindOrCreate(ix, ParentName(name))

\* one turn of New's loop over fs.reader.File: entry k of the archive
AddEntry(ix, archive_, k) ==
    LET r1 == FindOrCreate(ix, archive_[k].name)
        n1 == [r1.ix.nodes EXCEPT ![r1.fi].zipFile = k]
        r2 == FindOrCreateParent([nodes |-> n1, fm |-> r1.ix.fm], archive_[k].name)
    IN  [nodes |-> [r2.ix.nodes EXCEPT
                       ![r2.fi].fileInfos = Append(@, r1.fi)],
         fm |-> r2.ix.fm]

RECURSIVE AddEntries(_, _, _)
AddEntries(ix, archive_, k) ==
    IF k > Len(archive_) THEN ix
    ELSE AddEntries(AddEntry(ix, archive_, k), archive_, k + 1)

\* fileInfo.Name()
Name(fi) == Base(fi.name)

\* fileInfoList.Less on two elements of a list
Less(nodes_, i, j) == StrLess(Name(nodes_[i]), Name(nodes_[j]))

\* sort.Sort on a short list is an insertion sort: x goes before the first
\* element of the sorted prefix that it is not less than, from the right
RECURSIVE Insert(_, _, _)
Insert(nodes_, sorted, x) ==
    IF sorted # <<>> /\ Less(nodes_, x, sorted[Len(sorted)])
    THEN Append(Insert(nodes_, SubSeq(sorted, 1, Len(sorted) - 1), x),
                sorted[Len(sorted)])
    ELSE Append(sorted, x)

RECURSIVE SortFrom(_, _, _, _)
SortFrom(nodes_, list, sorted, k) ==
    IF k > Len(list) THEN sorted
    ELSE SortFrom(nodes_, list, Insert(nodes_, sorted, list[k]), k + 1)

\* New without its sort.Sort: the list in the order of the archive
SortListNone(nodes_, list) == list

\* sort.Sort(fi.fileInfos)
SortList(nodes_, list) == SortFrom(nodes_, list, <<>>, 1)

\* New's second loop: the lists of more than one element are sorted
SortAll(nodes_) ==
    [i \in DOMAIN nodes_ |->
        IF Len(nodes_[i].fileInfos) > 1
        THEN [nodes_[i] EXCEPT !.fileInfos = SortList(nodes_, @)]
        ELSE nodes_[i]]

\* New, after zip.NewReader has returned the entry list
New(archive_) ==
    LET ix == AddEntries([nodes |-> <<>>, fm |-> NilMap], archive_, 1)
    IN  [nodes |-> SortAll(ix.nodes), fm |-> ix.fm]

(***************************************************************************)
(* The state.                                                              *)
(***************************************************************************)
VARIABLES
    archive,    \* zip.Reader.File, fixed by New
    nodes,      \* the fileInfo records New allocated; a handle's fileInfo
                \* points into them even after the filesystem is closed
    readerAt,   \* ZipFS.readerAt: "file" or "nil"
    closer,     \* ZipFS.closer: "file" or "nil"
    fileInfos,  \* ZipFS.fileInfos
    fsClosed,   \* history: ZipFS.Close has been called
    handles,    \* the fileReader of each Open that succeeded
    lastResult  \* what the last call was given and what it returned

vars == <<archive, nodes, readerAt, closer, fileInfos, fsClosed, handles, lastResult>>

\* the handles of the run.  No method of a fileReader reads or writes another
\* fileReader, and none writes a fileInfo, so a run is followed on one handle
Handles == DOMAIN handles

\* a []os.FileInfo: Go tells the nil slice from the empty one
NilList == [nil |-> TRUE, items |-> <<>>]
List(items) == [nil |-> FALSE, items |-> items]

\* errors: a nil error, a bare error value, an *os.PathError
NoErr == [wrapped |-> FALSE, op |-> "", path |-> <<>>, cause |-> "nil"]
Bare(cause) == [wrapped |-> FALSE, op |-> "", path |-> <<>>, cause |-> cause]
PathError(op, path, cause) ==
    [wrapped |-> TRUE, op |-> op, path |-> path, cause |-> cause]

\* the name ioutil.TempFile gives the temporary file
TempName == <<"x">>

(***************************************************************************)
(* A fileReader.  reader is "nil", "open", "closed" (Close was called on   *)
(* it once) or "reclosed" (more than once), rpos the number of bytes read  *)
(* from it; file is "nil", "open" or "closed", fpos its offset, temp the   *)
(* bytes of the temporary file.  The other fields are history: created     *)
(* counts the temporary files ioutil.TempFile made for the handle, onDisk  *)
(* those of them that exist; eof says that a Readdir(count > 0) returned   *)
(* io.EOF; pg follows the pages of the handle's first paginated listing.   *)
(***************************************************************************)
NoPages == [count |-> 0, items |-> <<>>, full |-> 0, last |-> 0, done |-> FALSE,
            mixed |-> FALSE]

Unused ==
    [used |-> FALSE, name |-> <<>>, fileInfo |-> 0, reader |-> "nil", rpos |-> 0,
     file |-> "nil", fpos |-> 0, temp |-> <<>>, closed |-> FALSE,
     readdir |-> NilList, created |-> 0, onDisk |-> 0, eof |-> FALSE,
     pg |-> NoPages]

\* fileInfo.openReader
openReader(fi, name) == [Unused EXCEPT !.used = TRUE, !.name = name, !.fileInfo = fi]

NoArgs == [name |-> <<>>, len |-> 0, offset |-> 0, whence |-> 0, count |-> 0]

\* what a call's record keeps of the handle as the call found it
Pre(f) ==
    [closed |-> f.closed, reader |-> f.reader, file |-> f.file,
     created |-> f.created, eof |-> f.eof]

\* the record of a call on handle h, found as f
Result(op, h, f, args) ==
    [op |-> op, h |-> h, pre |-> Pre(f), args |-> args, panic |-> FALSE,
     err |-> NoErr, n |-> 0, data |-> <<>>, infos |-> NilList, fi |-> 0,
     steps |-> <<>>]

Init ==
    /\ archive \in Archives
    /\ LET ix == New(archive)
       IN  /\ nodes = ix.nodes
           /\ fileInfos = ix.fm
    /\ readerAt = "file"
    /\ closer = "file"
    /\ fsClosed = FALSE
    /\ handles = <<Unused>>
    /\ lastResult = Result("New", 0, Unused, NoArgs)

(***************************************************************************)
(* fileInfo's methods.                                                     *)
(***************************************************************************)
\* fileInfo.IsDir
IsDir(fi) == IF fi.zipFile = 0 THEN TRUE ELSE ZipIsDir(archive[fi.zipFile])

\* fileInfo.Mode().IsDir()
ModeIsDir(fi) == fi.zipFile = 0 \/ IsDir(fi)

\* the bytes zipFile.Open() decompresses
Content(fi) == archive[fi.zipFile].content

(***************************************************************************)
(* ZipFS.                                                                  *)
(***************************************************************************)
\* the paths Open is called with
OpenPaths ==
    { <<"/">>, <<"a">>, <<"/", "c", "/">>, <<"c", "/", "b">>,
      <<"/", "c", "/", ".", "/", "b", "/", "a">>, <<"/", "x", "/">> }

\* openFileInfo without its test for a closed filesystem
FsClosedUnchecked == FALSE

\* ZipFS.openFileInfo's first test
FsClosed == readerAt = "nil"

\* ZipFS.openFileInfo: the *fileInfo and the error
openFileInfo(name) ==
    IF FsClosed THEN [fi |-> 0, err |-> Bare("errFileSystemClosed")]
    ELSE LET cleaned == Clean(name)
             trimmedName == TrimLeft(cleaned)
             fi == Lookup(fileInfos, trimmedName)
         IN  IF fi = 0
             THEN [fi |-> 0, err |-> PathError("Open", cleaned, "ErrNotExist")]
             ELSE [fi |-> fi, err |-> NoErr]

\* ZipFS.Open
Open(h, name) ==
    /\ ~handles[h].used
    /\ LET r == openFileInfo(name)
           res == [Result("Open", h, handles[h], [NoArgs EXCEPT !.name = name])
                     EXCEPT !.err = r.err, !.fi = r.fi]
       IN  /\ handles' = IF r.fi = 0 THEN handles
                         ELSE [handles EXCEPT ![h] = openReader(r.fi, name)]
           /\ lastResult' = res
    /\ UNCHANGED <<archive, nodes, readerAt, closer, fileInfos, fsClosed>>

\* ZipFS.Close; closeFails: fs.closer.Close() returns an error
FsClose(closeFails) ==
    /\ closer = "nil" => ~closeFails
    /\ fsClosed' = TRUE
    /\ readerAt' = "nil"
    /\ closer' = "nil"
    /\ fileInfos' = NilMap
    /\ lastResult' =
          [Result("FsClose", 0, Unused, NoArgs) EXCEPT
              !.err = IF closeFails THEN Bare("io") ELSE NoErr,
              !.steps = IF closer # "nil"
                        THEN <<[step |-> "closer.Close",
                                err |-> IF closeFails THEN "io" ELSE "nil"]>>
                        ELSE <<>>]
    /\ UNCHANGED <<archive, nodes, handles>>

(***************************************************************************)
(* fileReader.  Each method is an operator from the handle f and the       *)
(* call's inputs to [f |-> the handle after, res |-> the call's record].   *)
(* What the calls into archive/zip and os return is an input: fails names  *)
(* the sub-steps of Close that return an error, outcome is "ok" or the     *)
(* call of Read or Seek that returns an error.                             *)
(***************************************************************************)
\* reader.Close() on a reader that is not nil
CloseReader(state) == IF state = "open" THEN "closed" ELSE "reclosed"

\* zipFile.Open() reads the entry's header through the archive's file: it
\* cannot succeed once ZipFS.Close has closed that file
ZipOpenCan == IF closer = "nil" THEN {"open"} ELSE {"ok", "open"}

\* the last error of a list of step records, where Close returns the first
LastErr(steps) ==
    LET failed == { i \in DOMAIN steps : steps[i].err # "nil" }
    IN  IF failed = {} THEN "nil"
        ELSE steps[CHOOSE i \in failed : \A j \in failed : j <= i].err

\* the first error of a list of step records, "nil" when there is none
RECURSIVE FirstErr(_)
FirstErr(steps) ==
    IF steps = <<>> THEN "nil"
    ELSE IF Head(steps).err # "nil" THEN Head(steps).err
    ELSE FirstErr(Tail(steps))

\* fileReader.pathError
pathError(f, op, cause) == PathError(op, f.name, cause)

\* the sub-steps of Close that may return an I/O error on handle f
CloseSteps(f) ==
    (IF f.reader # "nil" THEN {"reader.Close"} ELSE {})
    \cup (IF f.file = "open" THEN {"file.Close"} ELSE {})
    \cup (IF f.file # "nil" /\ f.onDisk > 0 THEN {"os.Remove"} ELSE {})

\* fileReader.Close
fileReaderClose(f, h, fails) ==
    LET s1 == IF f.reader # "nil"
              THEN <<[step |-> "reader.Close",
                      err |-> IF "reader.Close" \in fails THEN "io" ELSE "nil"]>>
              ELSE <<>>
        tempFile == IF f.file # "nil" THEN TempName ELSE <<>>
        s2 == IF f.file # "nil"
              THEN <<[step |-> "file.Close",
                      err |-> IF f.file = "closed" THEN "ErrClosed"
                              ELSE IF "file.Close" \in fails THEN "io" ELSE "nil"]>>
              ELSE <<>>
        removed == tempFile # <<>> /\ f.onDisk > 0 /\ "os.Remove" \notin fails
        s3 == IF tempFile # <<>>
              THEN <<[step |-> "os.Remove",
                      err |-> IF f.onDisk = 0 THEN "ErrNotExist"
                              ELSE IF "os.Remove" \in fails THEN "EACCES" ELSE "nil"]>>
              ELSE <<>>
        errs == s1 \o s2 \o s3
        g == [f EXCEPT !.reader = IF @ # "nil" THEN CloseReader(@) ELSE @,
                       !.file = IF @ # "nil" THEN "closed" ELSE @,
                       !.onDisk = IF removed THEN @ - 1 ELSE @,
                       !.closed = TRUE]
    IN  [f |-> g,
         res |-> [Result("Close", h, f, NoArgs) EXCEPT
                     !.steps = errs,
                     !.err = IF FirstErr(errs) # "nil"
                             THEN pathError(f, "Close", FirstErr(errs))
                             ELSE NoErr]]

\* Read and Seek's first test
IsClosed(f) == f.closed

\* a Read of up to len bytes at offset pos of bytes: os.File.Read, and the
\* decompression stream's Read
ReadAt(bytes, pos, len) ==
    LET k == IF pos < Len(bytes) THEN Min(len, Len(bytes) - pos) ELSE 0
    IN  [n |-> k, data |-> SubSeq(bytes, pos + 1, pos + k),
         err |-> IF k = 0 THEN Bare("EOF") ELSE NoErr]

\* the outcomes of the calls a Read on handle f makes
ReadOutcomes(f) ==
    IF IsClosed(f) THEN {"ok"}
    ELSE IF f.file # "nil" THEN {"ok", "read"}
    ELSE IF f.reader # "nil" THEN {"ok", "read"}
    ELSE IF nodes[f.fileInfo].zipFile = 0 THEN {"ok"}
    ELSE ZipOpenCan \cup (IF "ok" \in ZipOpenCan THEN {"read"} ELSE {})

\* fileReader.Read with a buffer of len bytes
fileReaderRead(f, h, len, outcome) ==
    LET res == Result("Read", h, f, [NoArgs EXCEPT !.len = len])
        fi == nodes[f.fileInfo]
    IN  IF IsClosed(f)
        THEN [f |-> f, res |-> [res EXCEPT !.err = pathError(f, "Read", "errFileClosed")]]
        ELSE IF f.file # "nil"
        THEN IF outcome # "read"
             THEN LET r == ReadAt(f.temp, f.fpos, len)
                  IN  [f |-> [f EXCEPT !.fpos = @ + r.n],
                       res |-> [res EXCEPT !.n = r.n, !.data = r.data, !.err = r.err]]
             ELSE [f |-> f, res |-> [res EXCEPT !.err = PathError("read", TempName, "io")]]
        ELSE IF f.reader = "nil" /\ fi.zipFile = 0
        THEN [f |-> f, res |-> [res EXCEPT !.panic = TRUE]]
        ELSE IF f.reader = "nil" /\ outcome = "open"
        THEN [f |-> f, res |-> [res EXCEPT !.err = Bare("io")]]
        ELSE LET g == IF f.reader = "nil"
                      THEN [f EXCEPT !.reader = "open", !.rpos = 0]
                      ELSE f
             IN  IF outcome # "read"
                 THEN LET r == ReadAt(Content(fi), g.rpos, len)
                      IN  [f |-> [g EXCEPT !.rpos = @ + r.n],
                           res |-> [res EXCEPT !.n = r.n, !.data = r.data,
                                               !.err = r.err]]
                 ELSE [f |-> g, res |-> [res EXCEPT !.err = Bare("io")]]

\* the rewind test without its test of whence
IsRewindAnyWhence(f, offset, whence) == f.file = "nil" /\ offset = 0

\* the rewind test without its test for a temporary file
IsRewindWithFile(f, offset, whence) == offset = 0 /\ whence = 0

\* Seek's test for the rewind that reopens the stream
IsRewind(f, offset, whence) == f.file = "nil" /\ offset = 0 /\ whence = 0

\* createTempFile without its test for a temporary file made before
NeedsTempFileAlways(f) == TRUE

\* fileReader.createTempFile's test for a missing temporary file
NeedsTempFile(f) == f.file = "nil"

\* createTempFile with an io.Copy that stops one byte short
createTempFileShort(f, outcome) ==
    IF outcome = "ok"
    THEN [f EXCEPT !.file = "open", !.fpos = 0,
                   !.temp = LET c == Content(nodes[f.fileInfo])
                            IN  SubSeq(c, 1, Len(c) - 1),
                   !.created = @ + 1, !.onDisk = @ + 1]
    ELSE IF outcome = "copy" THEN [f EXCEPT !.created = @ + 1]
    ELSE f

\* the package's createTempFile(zipFile) on handle f; outcome is "ok" or the
\* call that fails: "open" (f.Open), "temp" (ioutil.TempFile), "copy"
\* (io.Copy or tempFile.Seek, after which the file is closed and removed)
createTempFile(f, outcome) ==
    IF outcome = "ok"
    THEN [f EXCEPT !.file = "open", !.fpos = 0, !.temp = Content(nodes[f.fileInfo]),
                   !.created = @ + 1, !.onDisk = @ + 1]
    ELSE IF outcome = "copy" THEN [f EXCEPT !.created = @ + 1]
    ELSE f

\* what the package's createTempFile can do on handle f
TempCan(f) ==
    {"open"}
    \cup (IF closer = "nil" THEN {}
          ELSE {"ok", "temp"}
               \cup (IF f.created < MaxFailedTemps THEN {"copy"} ELSE {}))

\* the outcomes of the calls a Seek on handle f makes
SeekOutcomes(f, offset, whence) ==
    IF IsClosed(f) THEN {"ok"}
    ELSE (IF f.reader # "nil" THEN {"close"} ELSE {})
         \cup IF IsRewind(f, offset, whence)
              THEN IF nodes[f.fileInfo].zipFile = 0 THEN {"ok"} ELSE ZipOpenCan
              ELSE (IF f.reader # "nil" THEN {"close2"} ELSE {})
                   \cup IF NeedsTempFile(f) /\ nodes[f.fileInfo].zipFile # 0
                        THEN TempCan(f)
                        ELSE {"ok"}

\* os.File.Seek on the temporary file: the new offset, -1 for an invalid one
FileSeek(f, offset, whence) ==
    LET base == CASE whence = 0 -> 0
                  [] whence = 1 -> f.fpos
                  [] whence = 2 -> Len(f.temp)
    IN  IF base + offset < 0 THEN -1 ELSE base + offset

\* the handle without its decompression stream: f.reader = nil
DropReader(f) == [f EXCEPT !.reader = "nil", !.rpos = 0]

\* fileReader.Seek
fileReaderSeek(f, h, offset, whence, outcome) ==
    LET res == Result("Seek", h, f, [NoArgs EXCEPT !.offset = offset, !.whence = whence])
        fi == nodes[f.fileInfo]
        \* after Seek's reader.Close()
        g == [f EXCEPT !.reader = IF @ # "nil" THEN CloseReader(@) ELSE @]
        \* after fileReader.createTempFile's reader.Close()
        c == [g EXCEPT !.reader = IF @ # "nil" THEN CloseReader(@) ELSE @]
        m == IF NeedsTempFile(c)
             THEN createTempFile(DropReader(c), outcome)
             ELSE DropReader(c)
        pos == FileSeek(m, offset, whence)
        \* the reader.Close() calls: Seek's, and fileReader.createTempFile's
        k1 == IF f.reader # "nil"
              THEN <<[step |-> "reader.Close",
                      err |-> IF outcome = "close" THEN "io" ELSE "nil"]>>
              ELSE <<>>
        k2 == IF g.reader # "nil"
              THEN <<[step |-> "reader.Close",
                      err |-> IF outcome = "close2" THEN "io" ELSE "nil"]>>
              ELSE <<>>
    IN  IF IsClosed(f)
        THEN [f |-> f, res |-> [res EXCEPT !.err = pathError(f, "Seek", "errFileClosed")]]
        ELSE IF f.reader # "nil" /\ outcome = "close"
        THEN [f |-> g, res |-> [res EXCEPT !.err = Bare("io"), !.steps = k1]]
        ELSE IF IsRewind(g, offset, whence)
        THEN IF fi.zipFile = 0
             THEN [f |-> g, res |-> [res EXCEPT !.panic = TRUE, !.steps = k1]]
             ELSE IF outcome = "ok"
             THEN [f |-> [g EXCEPT !.reader = "open", !.rpos = 0],
                   res |-> [res EXCEPT !.steps = k1]]
             ELSE [f |-> DropReader(g),
                   res |-> [res EXCEPT !.err = Bare("io"), !.steps = k1]]
        ELSE IF g.reader # "nil" /\ outcome = "close2"
        THEN [f |-> c, res |-> [res EXCEPT !.err = Bare("io"), !.steps = k1 \o k2]]
        ELSE IF NeedsTempFile(c) /\ fi.zipFile = 0
        THEN [f |-> DropReader(c), res |-> [res EXCEPT !.panic = TRUE, !.steps = k1 \o k2]]
        ELSE IF NeedsTempFile(c) /\ outcome # "ok"
        THEN [f |-> m, res |-> [res EXCEPT !.err = Bare("io"), !.steps = k1 \o k2]]
        ELSE IF pos < 0
        THEN [f |-> m, res |-> [res EXCEPT !.err = PathError("seek", TempName, "EINVAL"),
                                           !.steps = k1 \o k2]]
        ELSE [f |-> [m EXCEPT !.fpos = pos],
              res |-> [res EXCEPT !.n = pos, !.steps = k1 \o k2]]

\* fileInfo.readdir without its test for a directory
readdirUnchecked(fi) == [list |-> List(fi.fileInfos), err |-> "nil"]

\* fileInfo.readdir: the list and the error
readdir(fi) ==
    IF ~ModeIsDir(fi) THEN [list |-> NilList, err |-> "errNotDirectory"]
    ELSE [list |-> List(fi.fileInfos), err |-> "nil"]

\* the full-page test with > for >=
FullPageStrict(list, count) == Len(list.items) > count

\* Readdir's test for a full page
FullPage(list, count) == Len(list.items) >= count

\* the history of the handle's first paginated listing after a page of infos
\* asked for with count: until the first io.EOF, and while count is the same
Paged(pg, count, infos, eof) ==
    IF pg.done \/ pg.mixed THEN pg
    ELSE IF pg.count \notin {0, count} THEN [pg EXCEPT !.mixed = TRUE]
    ELSE [count |-> count, items |-> pg.items \o infos,
          full |-> IF eof THEN pg.full ELSE pg.full + 1,
          last |-> Len(infos), done |-> eof, mixed |-> FALSE]

\* fileReader.Readdir
fileReaderReaddir(f, h, count) ==
    LET res == Result("Readdir", h, f, [NoArgs EXCEPT !.count = count])
        r == readdir(nodes[f.fileInfo])
        \* f.readdir after the assignment of line 319
        cur == IF f.readdir.nil THEN r.list ELSE f.readdir
        page == SubSeq(cur.items, 1, count)
    IN  IF count > 0
        THEN IF f.readdir.nil /\ r.err # "nil"
             THEN [f |-> [f EXCEPT !.readdir = r.list],
                   res |-> [res EXCEPT !.err = pathError(f, "Readdir", r.err)]]
             ELSE IF FullPage(cur, count)
             THEN [f |-> [f EXCEPT !.readdir =
                                      List(SubSeq(cur.items, count + 1, Len(cur.items))),
                                   !.pg = Paged(@, count, page, FALSE)],
                   res |-> [res EXCEPT !.infos = List(page)]]
             ELSE [f |-> [f EXCEPT !.readdir = NilList, !.eof = TRUE,
                                   !.pg = Paged(@, count, cur.items, TRUE)],
                   res |-> [res EXCEPT !.infos = cur, !.err = Bare("EOF")]]
        ELSE IF r.err # "nil"
             THEN [f |-> f, res |-> [res EXCEPT !.err = pathError(f, "Readdir", r.err)]]
             ELSE [f |-> f, res |-> [res EXCEPT !.infos = r.list]]

\* fileReader.Stat
fileReaderStat(f, h) ==
    [f |-> f, res |-> [Result("Stat", h, f, NoArgs) EXCEPT !.fi = f.fileInfo]]

(***************************************************************************)
(* The actions: one call of one method on handle h.                        *)
(***************************************************************************)
Lens == 1 .. MaxLen
Counts == -1 .. MaxCount
Offsets == {-1, 0, 1}
Whences == {0, 1, 2}

\* a call that keeps the listing cursor in the directory's fileInfo, for every
\* handle of the directory, where Readdir keeps it in the handle
ApplyCursorInEntry(h, r) ==
    /\ handles' = [handles EXCEPT ![h] = r.f]
    /\ lastResult' = r.res
    /\ nodes' = IF r.f.readdir.nil THEN nodes
                ELSE [nodes EXCEPT ![r.f.fileInfo].fileInfos = r.f.readdir.items]
    /\ UNCHANGED <<archive, readerAt, closer, fileInfos, fsClosed>>

\* the effect of a call on handle h that returns r: the method has written
\* its own fileReader and nothing else
Apply(h, r) ==
    /\ handles' = [handles EXCEPT ![h] = r.f]
    /\ lastResult' = r.res
    /\ UNCHANGED <<archive, nodes, readerAt, closer, fileInfos, fsClosed>>

Close(h) ==
    /\ handles[h].used
    /\ \E fails \in SUBSET CloseSteps(handles[h]) :
          Apply(h, fileReaderClose(handles[h], h, fails))

Read(h) ==
    /\ handles[h].used
    /\ \E len \in Lens, outcome \in ReadOutcomes(handles[h]) :
          Apply(h, fileReaderRead(handles[h], h, len, outcome))

Seek(h) ==
    /\ handles[h].used
    /\ \E offset \in Offsets, whence \in Whences :
          /\ whence = 1 => handles[h].fpos + offset <= MaxPos
          /\ \E outcome \in SeekOutcomes(handles[h], offset, whence) :
                Apply(h, fileReaderSeek(handles[h], h, offset, whence, outcome))

Readdir(h) ==
    /\ handles[h].used
    /\ \E count \in Counts : Apply(h, fileReaderReaddir(handles[h], h, count))

Stat(h) ==
    /\ handles[h].used
    /\ Apply(h, fileReaderStat(handles[h], h))

Next ==
    \/ \E h \in Handles, name \in OpenPaths : Open(h, name)
    \/ \E closeFails \in BOOLEAN : FsClose(closeFails)
    \/ \E h \in Handles : Close(h)
    \/ \E h \in Handles : Read(h)
    \/ \E h \in Handles : Seek(h)
    \/ \E h \in Handles : Readdir(h)
    \/ \E h \in Handles : Stat(h)

Spec == Init /\ [][Next]_vars

(***************************************************************************)
(* Two callers on one filesystem.  Each caller has a handle of its own and *)
(* runs Open and the handle's methods on it; the calls of the two callers  *)
(* interleave in every order.  The filesystem is not closed meanwhile, and *)
(* the calls into archive/zip and os all succeed.                          *)
(***************************************************************************)
\* the archives of the two callers' runs: those with the most entries
ConcArchives == { q \in Archives : Len(q) = MaxEntries }

ConcInit ==
    /\ archive \in ConcArchives
    /\ LET ix == New(archive)
       IN  /\ nodes = ix.nodes
           /\ fileInfos = ix.fm
    /\ readerAt = "file"
    /\ closer = "file"
    /\ fsClosed = FALSE
    /\ handles = <<Unused, Unused>>
    /\ lastResult = Result("New", 0, Unused, NoArgs)

\* the paths the callers open: the root and the entries of the archive
ConcPaths == { <<"/">> } \cup { archive[k].name : k \in DOMAIN archive }

ConcOpen(h) == \E name \in ConcPaths : Open(h, name)

ConcRead(h) ==
    /\ handles[h].used
    /\ "ok" \in ReadOutcomes(handles[h])
    /\ \E len \in Lens : Apply(h, fileReaderRead(handles[h], h, len, "ok"))

ConcSeek(h) ==
    /\ handles[h].used
    /\ \E offset \in {0, 1} :
          /\ "ok" \in SeekOutcomes(handles[h], offset, 0)
          /\ Apply(h, fileReaderSeek(handles[h], h, offset, 0, "ok"))

ConcReaddir(h) ==
    /\ handles[h].used
    /\ \E count \in {0, 1} : Apply(h, fileReaderReaddir(handles[h], h, count))

ConcStat(h) == Stat(h)

ConcClose(h) ==
    /\ handles[h].used
    /\ Apply(h, fileReaderClose(handles[h], h, {}))

ConcNext ==
    \E h \in Handles :
        \/ ConcOpen(h)
        \/ ConcRead(h)
        \/ ConcSeek(h)
        \/ ConcReaddir(h)
        \/ ConcStat(h)
        \/ ConcClose(h)

SpecConc == ConcInit /\ [][ConcNext]_vars

(***************************************************************************)
(* The properties.  Last is the handle the last call was made on, as the   *)
(* call left it; lastResult.pre is what the call found.                    *)
(***************************************************************************)
Last == handles[lastResult.h]

OnHandle(op) == lastResult.op = op /\ lastResult.h \in Handles

\* C1: after Close() on a handle, every later Read, Seek and Readdir call on
\* it (Readdir with any count, on file and directory handles alike) fails
\* with the closed-handle error.
C1_ClosedHandleFails ==
    \A op \in {"Read", "Seek", "Readdir"} :
        (OnHandle(op) /\ lastResult.pre.closed)
            => lastResult.err = PathError(op, Last.name, "errFileClosed")

\* C2: a second Close() on a handle returns no error and performs no release
\* work: no Close of the stream, no Close and no Remove of the temporary file.
C2_SecondCloseDoesNothing ==
    (OnHandle("Close") /\ lastResult.pre.closed)
        => (lastResult.err = NoErr /\ lastResult.steps = <<>>)

\* C3: once a Readdir(count > 0) has returned the end-of-listing signal, every
\* later Readdir(count > 0) on the handle returns an empty result with the
\* end-of-listing signal.
C3_ExhaustedListingStaysExhausted ==
    (OnHandle("Readdir") /\ lastResult.args.count > 0 /\ lastResult.pre.eof)
        => (lastResult.infos.items = <<>> /\ lastResult.err = Bare("EOF"))

\* C4: the pages of Readdir(count) with a fixed count > 0 on a fresh handle,
\* up to the end-of-listing signal, concatenate to the result of Readdir(0);
\* the pages before the signal hold count entries each and carry no signal,
\* and the page that carries it is short (fewer than count entries).
C4_PagesConcatenateToListing ==
    \A h \in Handles :
        (handles[h].used /\ handles[h].pg.count > 0 /\ ~handles[h].pg.mixed)
            => LET pg == handles[h].pg
                   all == readdir(nodes[handles[h].fileInfo]).list.items
               IN  /\ Len(pg.items) =
                         pg.full * pg.count + (IF pg.done THEN pg.last ELSE 0)
                   /\ pg.items = SubSeq(all, 1, Len(pg.items))
                   /\ pg.done => (pg.items = all /\ pg.last < pg.count)

\* a listing of two pages of one entry each has ended on a third, empty page
C4_Witness ==
    \E h \in Handles :
        /\ handles[h].used /\ ~handles[h].pg.mixed /\ handles[h].pg.done
        /\ handles[h].pg.full = 2 /\ handles[h].pg.last = 0

\* the *fileInfo values of the index
Indexed == { fileInfos[k] : k \in DOMAIN fileInfos }

\* the number of places of list that hold x
Occurrences(list, x) == Cardinality({ i \in DOMAIN list : list[i] = x })

\* C5: after New the index contains the root directory, and every non-root
\* entry of the index is in the child list of exactly one directory entry,
\* its parent by path, which is in the index too.
C5_EveryEntryHasItsParent ==
    ~fsClosed =>
        /\ Lookup(fileInfos, Slash) # 0
        /\ \A fi \in Indexed :
              nodes[fi].name # Slash =>
                  /\ Lookup(fileInfos, ParentName(nodes[fi].name)) # 0
                  /\ \A d \in Indexed :
                        Occurrences(nodes[d].fileInfos, fi) =
                           IF d = Lookup(fileInfos, ParentName(nodes[fi].name))
                           THEN 1 ELSE 0

\* C6, as stated: a Seek with offset 0 never creates a temporary file, whatever
\* its whence.
C6_ZeroOffsetNeverMaterializes ==
    (OnHandle("Seek") /\ lastResult.args.offset = 0)
        => Last.created = lastResult.pre.created

\* C6, amended: a Seek with offset 0 and whence 0 never creates a temporary
\* file; every other Seek that succeeds leaves the handle with its temporary
\* file, made by this call when the handle had none.
C6_RewindNeverMaterializes ==
    OnHandle("Seek") =>
        IF lastResult.args.offset = 0 /\ lastResult.args.whence = 0
        THEN Last.created = lastResult.pre.created /\ Last.file = lastResult.pre.file
        ELSE (~lastResult.pre.closed /\ ~lastResult.panic /\ lastResult.err = NoErr)
                => /\ Last.file = "open"
                   /\ lastResult.pre.file = "nil"
                         => Last.created = lastResult.pre.created + 1

\* a handle that has read from its stream is rewound, and has no temporary file
C6_Witness ==
    /\ OnHandle("Seek") /\ lastResult.args.offset = 0 /\ lastResult.args.whence = 0
    /\ lastResult.pre.reader = "open" /\ lastResult.err = NoErr
    /\ Last.reader = "open" /\ Last.file = "nil" /\ Last.created = 0

\* C7: a handle owns at most one temporary file: the Seek that materializes
\* the entry creates exactly one, and every later Seek on the handle, whatever
\* its offset and whence, creates none.
C7_AtMostOneTempFile ==
    /\ \A h \in Handles :
          /\ handles[h].onDisk <= 1
          /\ handles[h].file = "open" => handles[h].onDisk = 1
    /\ OnHandle("Seek") =>
          /\ lastResult.pre.file # "nil" => Last.created = lastResult.pre.created
          /\ (lastResult.pre.file = "nil" /\ Last.file # "nil")
                => Last.created = lastResult.pre.created + 1

\* a Seek with a nonzero offset has succeeded on a handle that had its file
C7_Witness ==
    /\ OnHandle("Seek") /\ lastResult.args.offset # 0 /\ lastResult.err = NoErr
    /\ lastResult.pre.file = "open" /\ Last.file = "open" /\ Last.onDisk = 1

\* C8: after Close() on the filesystem, and after any further Close(), every
\* Open fails with the closed-filesystem error, for the paths of the index and
\* for the others alike.
C8_OpenFailsAfterFsClose ==
    (lastResult.op = "Open" /\ fsClosed)
        => /\ lastResult.err = Bare("errFileSystemClosed")
           /\ lastResult.fi = 0
           /\ ~handles[lastResult.h].used

\* Open of a path that New had indexed has failed after Close()
C8_Witness ==
    /\ lastResult.op = "Open" /\ fsClosed
    /\ Lookup(New(archive).fm, TrimLeft(Clean(lastResult.args.name))) # 0
    /\ lastResult.err = Bare("errFileSystemClosed")

\* C9: Read on a handle opened on a directory returns an error and no data,
\* for a directory with an archive entry and for a synthesized one.
C9_ReadOnDirectoryIsAnError ==
    (OnHandle("Read") /\ ModeIsDir(nodes[Last.fileInfo]))
        => /\ ~lastResult.panic
           /\ lastResult.err # NoErr
           /\ lastResult.n = 0 /\ lastResult.data = <<>>

\* C10: no call panics: every Open, Read, Seek, Readdir, Stat and Close
\* returns a value or an error.
C10_NoCallPanics == ~lastResult.panic

\* C11: Open of a path that has no entry in the index fails with a not-found
\* error that carries the string the caller passed to Open, whatever its
\* separators, dots and trailing slash.
C11_NotFoundCarriesRequestedPath ==
    (lastResult.op = "Open" /\ ~fsClosed
        /\ Lookup(fileInfos, TrimLeft(Clean(lastResult.args.name))) = 0)
        => lastResult.err = PathError("Open", lastResult.args.name, "ErrNotExist")

\* the operations of the filesystem and of its handles that return an error
ErrorOps == {"Open", "Read", "Seek", "Readdir", "Stat", "Close"}

\* C12: every error that Open or a method of a handle returns, the
\* end-of-data signal apart, is a path error with the name of the operation
\* and the path the handle was opened with (for Open, the path asked for)
\* around its cause: none is a bare sentinel or a bare I/O error.
C12_EveryErrorIsAPathError ==
    (lastResult.op \in ErrorOps /\ lastResult.err # NoErr
        /\ lastResult.err.cause # "EOF")
        => /\ lastResult.err.wrapped
           /\ lastResult.err.op = lastResult.op
           /\ lastResult.err.path =
                 IF lastResult.op = "Open" THEN lastResult.args.name ELSE Last.name

\* C13: Readdir with any count on a handle opened on a file fails with the
\* not-a-directory error around the handle's open path and the operation
\* Readdir, returns no entries, and leaves the handle (its stream, its
\* temporary file, its listing cursor and all its other fields) as it was.
C13_ReaddirOnFileFailsAndKeepsHandle ==
    [][ (lastResult'.op = "Readdir"
            /\ ~ModeIsDir(nodes[handles[lastResult'.h].fileInfo]))
        => /\ lastResult'.err =
                 PathError("Readdir", handles[lastResult'.h].name, "errNotDirectory")
           /\ lastResult'.infos = NilList
           /\ handles' = handles ]_vars

\* Readdir with a positive count has failed on a file handle that holds its
\* temporary file, after a Seek
C13_Witness ==
    /\ OnHandle("Readdir") /\ lastResult.args.count > 0
    /\ ~ModeIsDir(nodes[Last.fileInfo])
    /\ Last.file = "open" /\ Last.fpos > 0 /\ Last.readdir = NilList
    /\ lastResult.err = PathError("Readdir", Last.name, "errNotDirectory")

\* the entries of the archive that lie directly in directory d of the index
ChildrenOf(d) ==
    { k \in DOMAIN nodes :
         /\ nodes[k].zipFile # 0
         /\ ParentName(archive[nodes[k].zipFile].name) = nodes[d].name }

\* C15: Readdir with a count of 0 or less on a directory handle returns the
\* entries of the directory, each once, in the order of their base names,
\* whatever the order of the entries in the archive; the result depends on
\* the directory alone, so every such call on the handle returns the same
\* sequence, before, between and after paginated calls.
C15_ListingIsSortedAndStable ==
    (OnHandle("Readdir") /\ lastResult.args.count <= 0
        /\ ModeIsDir(nodes[Last.fileInfo]))
        => LET items == lastResult.infos.items
           IN  /\ lastResult.err = NoErr
               /\ Range(items) = ChildrenOf(Last.fileInfo)
               /\ \A i, j \in DOMAIN items :
                     i < j => StrLess(Name(nodes[items[i]]), Name(nodes[items[j]]))

\* the archive has "c/" before "a"; the root's handle has returned a page of a
\* paginated listing, and then Readdir(0) has returned both entries
C15_Witness ==
    /\ OnHandle("Readdir") /\ lastResult.args.count = 0
    /\ Len(archive) = 2 /\ archive[1].name = <<"c", "/">> /\ archive[2].name = <<"a">>
    /\ nodes[Last.fileInfo].name = Slash
    /\ Last.pg.count > 0
    /\ Len(lastResult.infos.items) = 2

\* the sub-steps a Close has to attempt on a handle it finds with stream
\* reader and temporary file file
CloseWork(reader, file) ==
    (IF reader # "nil" THEN <<"reader.Close">> ELSE <<>>)
    \o (IF file # "nil" THEN <<"file.Close", "os.Remove">> ELSE <<>>)

\* C17: Close on a handle attempts every sub-step there is work for (the
\* stream's Close, the temporary file's Close, its removal), whether or not an
\* earlier one has failed; it sets the closed flag in every case; it returns
\* nil when no sub-step failed, and otherwise the error of the first sub-step
\* that failed, in a path error of the operation Close and the open path.
C17_CloseAttemptsEveryStep ==
    OnHandle("Close") =>
        LET steps == lastResult.steps
            failed == { i \in DOMAIN steps : steps[i].err # "nil" }
        IN  /\ [i \in DOMAIN steps |-> steps[i].step] =
                  CloseWork(lastResult.pre.reader, lastResult.pre.file)
            /\ Last.closed /\ Last.reader # "open" /\ Last.file # "open"
            /\ lastResult.err =
                  IF failed = {} THEN NoErr
                  ELSE PathError("Close", Last.name,
                                 steps[CHOOSE i \in failed : \A j \in failed : i <= j].err)

\* the first Close of a handle with a temporary file: the file's Close has
\* failed, its removal was attempted and has failed too, and the error
\* returned is the first of the two
C17_Witness ==
    /\ OnHandle("Close") /\ ~lastResult.pre.closed /\ Last.closed
    /\ Len(lastResult.steps) = 2
    /\ lastResult.steps[1].err = "io" /\ lastResult.steps[2].err = "EACCES"
    /\ lastResult.err = PathError("Close", Last.name, "io")

\* C18: Seek returns, and leaves the handle at, the position from the start of
\* the entry: on an open handle whose stream has delivered p bytes, a Seek
\* with whence 1 (from the current position) that succeeds returns
\* p + offset, and the next Read starts there.
C18_SeekFromCurrentKeepsPosition ==
    [][ (/\ lastResult'.op = "Seek" /\ lastResult'.args.whence = 1
         /\ ~lastResult'.pre.closed /\ lastResult'.pre.reader = "open"
         /\ ~lastResult'.panic /\ lastResult'.err = NoErr)
        => LET h == lastResult'.h
               p == handles[h].rpos
           IN  /\ lastResult'.n = p + lastResult'.args.offset
               /\ handles'[h].fpos = p + lastResult'.args.offset ]_vars

\* the number of reader.Close() calls the last call has made
StreamCloses ==
    Cardinality({ i \in DOMAIN lastResult.steps :
                     lastResult.steps[i].step = "reader.Close" })

\* C19: every decompression stream of a handle is closed exactly once by the
\* time the handle's first Close returns: no stream is closed a second time
\* (a Seek closes the stream it finds once and no more, and no call closes a
\* stream that is closed already), and none is left open by the first Close
\* or replaced while it is open.
C19_StreamClosedExactlyOnce ==
    /\ \A h \in Handles : handles[h].reader # "reclosed"
    /\ (OnHandle("Seek") /\ ~lastResult.pre.closed)
          => StreamCloses = IF lastResult.pre.reader = "open" THEN 1 ELSE 0
    /\ (OnHandle("Close") /\ ~lastResult.pre.closed)
          => /\ Last.reader \in {"nil", "closed"}
             /\ StreamCloses = IF lastResult.pre.reader = "open" THEN 1 ELSE 0

\* C20: a handle never holds an open decompression stream and a temporary
\* file together; a call on a handle that has its temporary file leaves it
\* with the file and without a stream, whatever the call; and a call on a
\* closed handle leaves it closed.
C20_StatesExclusiveUpgradeOneWay ==
    /\ \A h \in Handles :
          handles[h].file # "nil" => handles[h].reader = "nil"
    /\ (lastResult.h \in Handles /\ lastResult.op # "Open") =>
          /\ lastResult.pre.file # "nil" => (Last.file # "nil" /\ Last.reader = "nil")
          /\ (lastResult.pre.file = "open" /\ ~lastResult.pre.closed
                /\ lastResult.op # "Close") => Last.file = "open"
          /\ lastResult.pre.closed => Last.closed

\* a Seek(0, 0), the rewind of a handle without a file, has succeeded on a
\* handle that has its temporary file: it has opened no stream
C20_Witness ==
    /\ OnHandle("Seek") /\ lastResult.args.offset = 0 /\ lastResult.args.whence = 0
    /\ lastResult.pre.file = "open" /\ ~lastResult.pre.closed
    /\ lastResult.err = NoErr
    /\ Last.file = "open" /\ Last.reader = "nil"

\* C14: reading a materialized handle from position 0 to the end yields the
\* bytes that a sequential read of the entry's decompression stream yields.
\* The temporary file holds the bytes of the entry; a Read that returns
\* without an I/O error, from the temporary file and from the stream alike,
\* delivers the bytes of the entry that end at the position it leaves the
\* handle at, at least one byte before the end of the entry, and none, with
\* the end-of-data signal, at the end or past it.
C14_MaterializedReadsEqualStreamReads ==
    /\ \A h \in Handles :
          handles[h].file # "nil"
             => handles[h].temp = Content(nodes[handles[h].fileInfo])
    /\ (OnHandle("Read") /\ ~lastResult.pre.closed /\ ~lastResult.panic
          /\ lastResult.err \in {NoErr, Bare("EOF")})
          => LET bytes == Content(nodes[Last.fileInfo])
                 pos == IF Last.file # "nil" THEN Last.fpos ELSE Last.rpos
                 n == lastResult.n
             IN  /\ n = Len(lastResult.data)
                 /\ lastResult.data = SubSeq(bytes, pos - n + 1, pos)
                 /\ (n = 0) = (pos - n >= Len(bytes))
                 /\ (n = 0) = (lastResult.err = Bare("EOF"))

\* a handle with a temporary file that was read from its stream before has
\* been read to the end of the entry "a": the Read at offset 2 signals the end
C14_Witness ==
    /\ OnHandle("Read") /\ lastResult.err = Bare("EOF")
    /\ Last.file = "open" /\ Last.created = 1
    /\ Len(Last.temp) = 2 /\ Last.fpos = 2

\* C16: while two callers run Open, Stat, Readdir, Read, Seek and Close, each
\* on a handle of its own, no step writes the index or a fileInfo (its name,
\* its archive entry, its child list), and no step of one caller writes the
\* other caller's handle: in every interleaving a call finds the index as New
\* built it and its handle as its caller left it, as when the caller runs alone.
C16_CallsWriteTheirOwnHandleOnly ==
    [][ /\ archive' = archive
        /\ nodes' = nodes
        /\ fileInfos' = fileInfos
        /\ readerAt' = readerAt /\ closer' = closer
        /\ \A g \in Handles :
              g # lastResult'.h => handles'[g] = handles[g] ]_vars

\* both callers have a handle on the root, which has two entries; the first
\* has taken a page of one entry, and then the second's Readdir(0) has
\* returned both entries
C16_Witness ==
    /\ Len(handles) = 2 /\ handles[1].used /\ handles[2].used
    /\ handles[1].fileInfo = handles[2].fileInfo
    /\ ~handles[1].readdir.nil /\ Len(handles[1].readdir.items) = 1
    /\ lastResult.op = "Readdir" /\ lastResult.h = 2 /\ lastResult.args.count = 0
    /\ Len(lastResult.infos.items) = 2

=============================================================================
